---- MODULE Spec2Model ----
(***************************************************************************)
(* Model of the QA Daily Quiz popup script (src/popup.js).                 *)
(*                                                                         *)
(* The popup is a single-threaded, event-driven program.  Every handler    *)
(* (DOMContentLoaded, checkbox change, button clicks) and every            *)
(* continuation of the async function fetchQuestions after an await runs   *)
(* to completion before the next one starts, so each of them is one        *)
(* atomic action here.  The module-global allQuestions and the DOM are     *)
(* shared by all fetch cycles that are in flight.                          *)
(***************************************************************************)
EXTENDS Integers, Sequences, FiniteSets, Bags, TLC

(***************************************************************************)
(* Bounds of the model.                                                    *)
(***************************************************************************)
\* number of checkbox changes the user makes in one run
MaxToggles == 2
\* largest number of questions the endpoint returns for one category
MaxQuestions == 1
\* longest array found in localStorage when the popup opens
MaxStored == 2
\* largest number of questions the pool is let to hold
MaxPool == 3
\* clicks of one button in a row that are told apart (more count as this many)
MaxClicks == 2
\* largest number of rows of a sheet, and longest pool, that shuffleArray is
\* applied to on its own
MaxRows == 3
MaxShuffled == 5

(***************************************************************************)
(* The category controls (.category-checkbox) in document order, and a     *)
(* value that may be left in storage but matches no control.               *)
(***************************************************************************)
Categories == <<"Cypress", "Selenium">>

CategorySet == {Categories[k] : k \in 1..Len(Categories)}

StaleValue == "Legacy"

DefaultCategories == <<"Cypress">>

SelectPrompt == "Please select at least one category."

AccountGuidance == "Please make sure you are logged into only one Google account in your browser, as the extension will not work correctly with multiple accounts. "

(***************************************************************************)
(* The remote endpoint: the rows of the sheet for a category.  A question  *)
(* is {question, answer}.                                                  *)
(***************************************************************************)
Question(category, k) ==
    [question |-> "Q-" \o category \o "-" \o ToString(k),
     answer   |-> "A-" \o category \o "-" \o ToString(k)]

Sheet(category, n) == [k \in 1..n |-> Question(category, k)]

VARIABLES
    phase,          \* "closed" before DOMContentLoaded, "open" afterwards
    storage,        \* localStorage item selectedCategories (JSON text as tokens)
    checked,        \* checkbox.checked of every category control
    allQuestions,   \* the module-global question pool
    dom,            \* text and hidden class of the five elements
    cycles,         \* the calls of fetchQuestions, in start order
    pending,        \* requests issued and not yet settled
    fetchCalls,     \* number of calls of fetchQuestion so far
    toggles,        \* number of checkbox changes so far
    justFinished,   \* the cycle whose last statement ran in the latest step
    lastChange,     \* the latest load or checkbox change, the state right
                    \* before it, and the same for the change before that
    lastClick       \* the button clicked in the latest steps, how often in a
                    \* row, and the answer's hidden class before the last
                    \* click and before the click before it

vars == <<phase, storage, checked, allQuestions, dom, cycles, pending,
          fetchCalls, toggles, justFinished, lastChange, lastClick>>

(***************************************************************************)
(* JSON.stringify / JSON.parse of an array of strings, as token lists.     *)
(* An absent key reads as null, and JSON.parse(null) is null.              *)
(***************************************************************************)
Quote(s) == "\"" \o s \o "\""

AllValues == CategorySet \cup {StaleValue}

Unquote(t) == CHOOSE v \in AllValues : Quote(v) = t

RECURSIVE JSONStringifyItems(_)
JSONStringifyItems(arr) ==
    IF Len(arr) = 0 THEN <<>>
    ELSE IF Len(arr) = 1 THEN <<Quote(arr[1])>>
    ELSE <<Quote(arr[1]), ",">> \o JSONStringifyItems(Tail(arr))

JSONStringify(arr) == <<"[">> \o JSONStringifyItems(arr) \o <<"]">>

AbsentItem == <<>>

NullText == <<"null">>

RECURSIVE JSONParseItems(_)
JSONParseItems(tokens) ==
    IF Len(tokens) <= 1 THEN <<>>
    ELSE IF Head(tokens) \in {"[", ","} THEN JSONParseItems(Tail(tokens))
    ELSE <<Unquote(Head(tokens))>> \o JSONParseItems(Tail(tokens))

JSONParse(text) ==
    IF text = AbsentItem \/ text = NullText
    THEN [isNull |-> TRUE, arr |-> <<>>]
    ELSE [isNull |-> FALSE, arr |-> JSONParseItems(text)]

(***************************************************************************)
(* Array helpers.                                                          *)
(***************************************************************************)
Includes(arr, v) == \E k \in 1..Len(arr) : arr[k] = v

\* Array.from(checkboxes).filter(c => c.checked).map(c => c.value)
SelectedCategories(chk) == SelectSeq(Categories, LAMBDA c : chk[c])

RECURSIVE BagOfSeq(_)
BagOfSeq(arr) ==
    IF Len(arr) = 0 THEN EmptyBag ELSE SetToBag({Head(arr)}) (+) BagOfSeq(Tail(arr))

ArraysOver(S, n) ==
    UNION {{a \in [1..m -> S] : \A i, j \in 1..m : i # j => a[i] # a[j]} : m \in 0..n}

(***************************************************************************)
(* The DOM surface: two text regions and the hidden class of four          *)
(* elements.  Markup is the document before the script runs: the answer    *)
(* and the spinner start hidden; the script itself hides the two buttons.  *)
(***************************************************************************)
Markup ==
    [questionText       |-> "",
     answerText         |-> "",
     answerHidden       |-> TRUE,
     showAnswerHidden   |-> FALSE,
     nextQuestionHidden |-> FALSE,
     spinnerHidden      |-> TRUE]

\* variant: showing the spinner leaves the question text as it is
toggleLoading_KeepsText(d, isLoading) ==
    IF isLoading
    THEN [d EXCEPT !.spinnerHidden = FALSE]
    ELSE [d EXCEPT !.spinnerHidden = TRUE]

toggleLoading(d, isLoading) ==
    IF isLoading
    THEN [d EXCEPT !.spinnerHidden = FALSE, !.questionText = ""]
    ELSE [d EXCEPT !.spinnerHidden = TRUE]

\* Math.floor(Math.random() * n) for n > 0
RandomBelow(n) == 0..(n - 1)

RandomIndexes(pool) == IF Len(pool) = 0 THEN {0} ELSE RandomBelow(Len(pool))

\* variant: the answer text is not refreshed
displayNextQuestion_StaleAnswer(d, pool, randomIndex) ==
    IF Len(pool) = 0
    THEN [d EXCEPT !.questionText = AccountGuidance,
                   !.answerHidden = TRUE,
                   !.showAnswerHidden = TRUE,
                   !.nextQuestionHidden = TRUE]
    ELSE LET questionData == pool[randomIndex + 1]
         IN  [d EXCEPT !.questionText = questionData.question,
                       !.answerHidden = TRUE,
                       !.showAnswerHidden = FALSE,
                       !.nextQuestionHidden = FALSE]

displayNextQuestion(d, pool, randomIndex) ==
    IF Len(pool) = 0
    THEN [d EXCEPT !.questionText = AccountGuidance,
                   !.answerHidden = TRUE,
                   !.showAnswerHidden = TRUE,
                   !.nextQuestionHidden = TRUE]
    ELSE LET questionData == pool[randomIndex + 1]
         IN  [d EXCEPT !.questionText = questionData.question,
                       !.answerText = questionData.answer,
                       !.answerHidden = TRUE,
                       !.showAnswerHidden = FALSE,
                       !.nextQuestionHidden = FALSE]

(***************************************************************************)
(* shuffleArray: i runs from the last index down to 1, j is drawn from     *)
(* 0..i and elements i and j are swapped.  The operator is the set of      *)
(* arrays the loop can leave behind.                                       *)
(***************************************************************************)
Swap(array, i, j) ==
    [array EXCEPT ![i + 1] = array[j + 1], ![j + 1] = array[i + 1]]

RECURSIVE ShuffleFrom(_, _)
ShuffleFrom(array, i) ==
    IF i > 0
    THEN UNION {ShuffleFrom(Swap(array, i, j), i - 1) : j \in RandomBelow(i + 1)}
    ELSE {array}

\* variant: j is drawn below i, never i itself
RECURSIVE ShuffleFrom_Sattolo(_, _)
ShuffleFrom_Sattolo(array, i) ==
    IF i > 0
    THEN UNION {ShuffleFrom_Sattolo(Swap(array, i, j), i - 1) : j \in RandomBelow(i)}
    ELSE {array}

shuffleArray_Sattolo(array) == ShuffleFrom_Sattolo(array, Len(array) - 1)

shuffleArray(array) == ShuffleFrom(array, Len(array) - 1)

(***************************************************************************)
(* Fetch cycles.  A cycle is one call of fetchQuestions; it is suspended   *)
(* at `await fetch(...)` (pc "fetch") or at `await response.json()` (pc    *)
(* "json") for categories[i], or has run its last statement (pc "done").   *)
(* results, issued and overlapped record what happened to the cycle while  *)
(* it runs; justFinished holds them in the state a cycle's last statement  *)
(* leaves, and is NoCycle in every other state.                            *)
(***************************************************************************)
CycleIds == 1..Len(cycles)

InFlight(cy) == cy.pc # "done"

InFlightIds == {id \in CycleIds : InFlight(cycles[id])}

Request(id, category) == [cycle |-> id, category |-> category]

Failed == [ok |-> FALSE, arr |-> <<>>]

Succeeded(newQuestions) == [ok |-> TRUE, arr |-> newQuestions]

MarkOverlapped(cys) ==
    [k \in 1..Len(cys) |->
        IF InFlight(cys[k]) THEN [cys[k] EXCEPT !.overlapped = TRUE] ELSE cys[k]]

NoCycle ==
    [id |-> 0, categories |-> <<>>, results |-> <<>>, issued |-> <<>>,
     overlapped |-> FALSE]

\* lines 94-96: the statements after the loop, on the pool as it then is
FinishCycle(id, cy, d, pool) ==
    /\ \E shuffled \in shuffleArray(pool) :
          \E randomIndex \in RandomIndexes(shuffled) :
            /\ allQuestions' = shuffled
            /\ dom' = displayNextQuestion(toggleLoading(d, FALSE), shuffled, randomIndex)
    /\ justFinished' = [id |-> id, categories |-> cy.categories,
                        results |-> cy.results, issued |-> cy.issued,
                        overlapped |-> cy.overlapped]

Finished(cy) == [cy EXCEPT !.pc = "done", !.results = <<>>, !.overlapped = FALSE]

\* variant: a new call aborts the calls that are still in flight
fetchQuestions_Aborting(d, categories) ==
    LET id == Len(cycles) + 1
    IN  /\ Len(categories) > 0
        /\ allQuestions' = <<>>
        /\ dom' = [toggleLoading(d, TRUE) EXCEPT !.showAnswerHidden = TRUE,
                                                 !.nextQuestionHidden = TRUE]
        /\ cycles' = Append([k \in 1..Len(cycles) |-> Finished(cycles[k])],
                            [categories |-> categories, i |-> 0, pc |-> "fetch",
                             results |-> <<>>, issued |-> <<categories[1]>>,
                             overlapped |-> FALSE])
        /\ pending' = {Request(id, categories[1])}
        /\ justFinished' = NoCycle

\* lines 70-78: the call runs up to its first await
fetchQuestions(d, categories) ==
    LET id == Len(cycles) + 1
        cleared == [toggleLoading(d, TRUE) EXCEPT !.showAnswerHidden = TRUE,
                                                  !.nextQuestionHidden = TRUE]
        others == InFlightIds # {}
        started == [categories |-> categories, i |-> 0, pc |-> "fetch",
                    results |-> <<>>, issued |-> <<>>, overlapped |-> others]
    IN  IF Len(categories) = 0
        THEN /\ FinishCycle(id, started, cleared, <<>>)
             /\ cycles' = Append(MarkOverlapped(cycles), Finished(started))
             /\ UNCHANGED pending
        ELSE /\ allQuestions' = <<>>
             /\ dom' = cleared
             /\ cycles' = Append(MarkOverlapped(cycles),
                    [started EXCEPT !.issued = <<categories[1]>>])
             /\ pending' = pending \cup {Request(id, categories[1])}
             /\ justFinished' = NoCycle

\* variant: no guard for the empty selection
fetchQuestion_NoGuard(d, chk) ==
    /\ fetchCalls' = fetchCalls + 1
    /\ fetchQuestions(d, SelectedCategories(chk))

fetchQuestion(d, chk) ==
    LET selectedCategories == SelectedCategories(chk)
    IN  /\ fetchCalls' = fetchCalls + 1
        /\ IF Len(selectedCategories) = 0
           THEN /\ dom' = [d EXCEPT !.questionText = SelectPrompt,
                                    !.answerHidden = TRUE,
                                    !.showAnswerHidden = TRUE,
                                    !.nextQuestionHidden = TRUE,
                                    !.spinnerHidden = TRUE]
                /\ justFinished' = NoCycle
                /\ UNCHANGED <<allQuestions, cycles, pending>>
           ELSE fetchQuestions(d, selectedCategories)

(***************************************************************************)
(* DOMContentLoaded handler.                                               *)
(***************************************************************************)
StoredTexts ==
    {AbsentItem, NullText} \cup {JSONStringify(a) : a \in ArraysOver(AllValues, MaxStored)}

NoChange ==
    [event |-> "none", checked |-> [c \in CategorySet |-> FALSE],
     storage |-> AbsentItem, fetchCalls |-> 0, cycles |-> 0,
     prevEvent |-> "none", prevChecked |-> [c \in CategorySet |-> FALSE],
     prevStorage |-> AbsentItem, prevFetchCalls |-> 0]

\* event happens now: the present state becomes the state before it
Changed(event) ==
    [event |-> event, checked |-> checked, storage |-> storage,
     fetchCalls |-> fetchCalls, cycles |-> Len(cycles),
     prevEvent |-> lastChange.event, prevChecked |-> lastChange.checked,
     prevStorage |-> lastChange.storage, prevFetchCalls |-> lastChange.fetchCalls]

NoClick == [button |-> "none", run |-> 0, hidden1 |-> TRUE, hidden2 |-> TRUE]

\* button is clicked now
Clicked(button) ==
    IF lastClick.button = button
    THEN [button  |-> button,
          run     |-> IF lastClick.run < MaxClicks THEN lastClick.run + 1 ELSE MaxClicks,
          hidden1 |-> dom.answerHidden,
          hidden2 |-> lastClick.hidden1]
    ELSE [button  |-> button, run |-> 1,
          hidden1 |-> dom.answerHidden, hidden2 |-> dom.answerHidden]

Init ==
    /\ phase = "closed"
    /\ storage \in StoredTexts
    /\ checked = [c \in CategorySet |-> FALSE]
    /\ allQuestions = <<>>
    /\ dom = Markup
    /\ cycles = <<>>
    /\ pending = {}
    /\ fetchCalls = 0
    /\ toggles = 0
    /\ justFinished = NoCycle
    /\ lastChange = NoChange
    /\ lastClick = NoClick

\* lines 23-27: the saved categories, and whether the default is written back
\* variant: only a missing value is replaced by the default
NeedsDefault_NullOnly(parsed) == parsed.isNull

NeedsDefault(parsed) == parsed.isNull \/ Len(parsed.arr) = 0

\* variant: the stored array is used as it is, without the default
SavedCategories_NoDefault(text) == JSONParse(text).arr

SavedCategories(text) ==
    LET parsed == JSONParse(text)
    IN  IF NeedsDefault(parsed) THEN DefaultCategories ELSE parsed.arr

StorageAfterLoad(text) ==
    IF NeedsDefault(JSONParse(text)) THEN JSONStringify(DefaultCategories) ELSE text

\* lines 30-33
ApplySaved(savedCategories) ==
    [c \in CategorySet |-> Includes(savedCategories, c)]

Initialize ==
    /\ phase = "closed"
    /\ phase' = "open"
    /\ storage' = StorageAfterLoad(storage)
    /\ checked' = ApplySaved(SavedCategories(storage))
    /\ fetchQuestion([dom EXCEPT !.showAnswerHidden = TRUE,
                                 !.nextQuestionHidden = TRUE], checked')
    /\ lastChange' = Changed("load")
    /\ lastClick' = NoClick
    /\ UNCHANGED toggles

(***************************************************************************)
(* change event of a category checkbox: the browser flips the box, then    *)
(* saveCategorySelections runs.                                            *)
(***************************************************************************)
\* variant: the selection is saved as it was before the change
saveCategorySelections_SavesOld(chk) ==
    /\ storage' = JSONStringify(SelectedCategories(checked))
    /\ fetchQuestion(dom, chk)

saveCategorySelections(chk) ==
    /\ storage' = JSONStringify(SelectedCategories(chk))
    /\ fetchQuestion(dom, chk)

ToggleCategory(category) ==
    /\ phase = "open"
    /\ toggles < MaxToggles
    /\ toggles' = toggles + 1
    /\ lastChange' = Changed(category)
    /\ lastClick' = NoClick
    /\ checked' = [checked EXCEPT ![category] = ~@]
    /\ saveCategorySelections(checked')
    /\ UNCHANGED phase

(***************************************************************************)
(* Continuations of a fetch cycle.                                         *)
(***************************************************************************)
\* the loop moves past categories[i] of cycle id, whose outcome was result
NextCategory(id, pool, result) ==
    LET cy == cycles[id]
        settled == [cy EXCEPT !.results = Append(@, result)]
        current == Request(id, cy.categories[cy.i + 1])
    IN  IF cy.i + 1 < Len(cy.categories)
        THEN LET category == cy.categories[cy.i + 2]
             IN  /\ cycles' = [cycles EXCEPT ![id] =
                        [settled EXCEPT !.i = cy.i + 1, !.pc = "fetch",
                                        !.issued = Append(@, category)]]
                 /\ pending' = (pending \ {current}) \cup {Request(id, category)}
                 /\ allQuestions' = pool
                 /\ justFinished' = NoCycle
                 /\ UNCHANGED dom
        ELSE /\ FinishCycle(id, settled, dom, pool)
             /\ cycles' = [cycles EXCEPT ![id] = Finished(settled)]
             /\ pending' = pending \ {current}

Untouched ==
    /\ lastClick' = NoClick
    /\ UNCHANGED <<phase, storage, checked, fetchCalls, toggles, lastChange>>

AwaitingFetch(id) ==
    /\ id \in CycleIds
    /\ cycles[id].pc = "fetch"
    /\ Request(id, cycles[id].categories[cycles[id].i + 1]) \in pending

AwaitingJson(id) == id \in CycleIds /\ cycles[id].pc = "json"

\* variant: the rejection is not caught and ends the call
FetchRejected_Uncaught(id) ==
    /\ AwaitingFetch(id)
    /\ cycles' = [cycles EXCEPT ![id].pc = "thrown"]
    /\ pending' = pending \ {Request(id, cycles[id].categories[cycles[id].i + 1])}
    /\ justFinished' = NoCycle
    /\ UNCHANGED <<allQuestions, dom>>
    /\ Untouched

\* fetch() rejects: lines 89-91
FetchRejected(id) ==
    /\ AwaitingFetch(id)
    /\ NextCategory(id, allQuestions, Failed)
    /\ Untouched

\* variant: a bad status leaves the loop (break for continue)
FetchNotOk_Break(id) ==
    /\ AwaitingFetch(id)
    /\ LET cy == cycles[id]
           settled == [cy EXCEPT !.results = Append(@, Failed)]
       IN  /\ FinishCycle(id, settled, dom, allQuestions)
           /\ cycles' = [cycles EXCEPT ![id] = Finished(settled)]
           /\ pending' = pending \ {Request(id, cy.categories[cy.i + 1])}
    /\ Untouched

\* variant: a bad status makes the loop request the same category again
FetchNotOk_Retry(id) ==
    /\ AwaitingFetch(id)
    /\ cycles' = [cycles EXCEPT ![id].issued =
                      Append(@, cycles[id].categories[cycles[id].i + 1])]
    /\ justFinished' = NoCycle
    /\ UNCHANGED <<allQuestions, dom, pending>>
    /\ Untouched

\* response.ok is false: lines 79-82
FetchNotOk(id) ==
    /\ AwaitingFetch(id)
    /\ NextCategory(id, allQuestions, Failed)
    /\ Untouched

\* response.ok is true: the cycle now awaits response.json(), line 83
FetchOk(id) ==
    /\ AwaitingFetch(id)
    /\ cycles' = [cycles EXCEPT ![id].pc = "json"]
    /\ pending' = pending \ {Request(id, cycles[id].categories[cycles[id].i + 1])}
    /\ justFinished' = NoCycle
    /\ UNCHANGED <<allQuestions, dom>>
    /\ Untouched

\* the body is a JSON array: lines 84-85
JsonArray(id, n) ==
    /\ AwaitingJson(id)
    /\ Len(allQuestions) + n <= MaxPool
    /\ LET newQuestions == Sheet(cycles[id].categories[cycles[id].i + 1], n)
       IN  NextCategory(id, allQuestions \o newQuestions, Succeeded(newQuestions))
    /\ Untouched

\* the body is JSON but no array: lines 86-88
JsonNotArray(id) ==
    /\ AwaitingJson(id)
    /\ NextCategory(id, allQuestions, Failed)
    /\ Untouched

\* the body is no JSON, response.json() rejects: lines 89-91
JsonRejected(id) ==
    /\ AwaitingJson(id)
    /\ NextCategory(id, allQuestions, Failed)
    /\ Untouched

(***************************************************************************)
(* Button clicks.  A button with the hidden class cannot be clicked.       *)
(***************************************************************************)
\* variant: the click shows the answer instead of toggling it
ShowAnswerClick_ShowOnly ==
    /\ phase = "open"
    /\ ~dom.showAnswerHidden
    /\ dom' = [dom EXCEPT !.answerHidden = FALSE]
    /\ justFinished' = NoCycle
    /\ lastClick' = Clicked("show")
    /\ UNCHANGED <<phase, storage, checked, allQuestions, cycles, pending,
                   fetchCalls, toggles, lastChange>>

ShowAnswerClick ==
    /\ phase = "open"
    /\ ~dom.showAnswerHidden
    /\ dom' = [dom EXCEPT !.answerHidden = ~@]
    /\ justFinished' = NoCycle
    /\ lastClick' = Clicked("show")
    /\ UNCHANGED <<phase, storage, checked, allQuestions, cycles, pending,
                   fetchCalls, toggles, lastChange>>

\* variant: the click takes the question it displays out of the pool
NextQuestionClick_Consuming ==
    /\ phase = "open"
    /\ ~dom.nextQuestionHidden
    /\ \E randomIndex \in RandomIndexes(allQuestions) :
          /\ dom' = displayNextQuestion([dom EXCEPT !.answerHidden = TRUE],
                                        allQuestions, randomIndex)
          /\ allQuestions' = SubSeq(allQuestions, 1, randomIndex) \o
                                SubSeq(allQuestions, randomIndex + 2, Len(allQuestions))
    /\ justFinished' = NoCycle
    /\ lastClick' = Clicked("next")
    /\ UNCHANGED <<phase, storage, checked, cycles, pending,
                   fetchCalls, toggles, lastChange>>

\* variant: the click shuffles the pool again before it displays
NextQuestionClick_Reshuffling ==
    /\ phase = "open"
    /\ ~dom.nextQuestionHidden
    /\ \E shuffled \in shuffleArray(allQuestions) :
          \E randomIndex \in RandomIndexes(shuffled) :
            /\ allQuestions' = shuffled
            /\ dom' = displayNextQuestion([dom EXCEPT !.answerHidden = TRUE],
                                          shuffled, randomIndex)
    /\ justFinished' = NoCycle
    /\ lastClick' = Clicked("next")
    /\ UNCHANGED <<phase, storage, checked, cycles, pending,
                   fetchCalls, toggles, lastChange>>

NextQuestionClick ==
    /\ phase = "open"
    /\ ~dom.nextQuestionHidden
    /\ \E randomIndex \in RandomIndexes(allQuestions) :
          dom' = displayNextQuestion([dom EXCEPT !.answerHidden = TRUE],
                                     allQuestions, randomIndex)
    /\ justFinished' = NoCycle
    /\ lastClick' = Clicked("next")
    /\ UNCHANGED <<phase, storage, checked, allQuestions, cycles, pending,
                   fetchCalls, toggles, lastChange>>

AllCycleIds == 1..(MaxToggles + 1)

Next ==
    \/ Initialize
    \/ \E category \in CategorySet : ToggleCategory(category)
    \/ \E id \in AllCycleIds : FetchRejected(id)
    \/ \E id \in AllCycleIds : FetchNotOk(id)
    \/ \E id \in AllCycleIds : FetchOk(id)
    \/ \E id \in AllCycleIds : \E n \in 0..MaxQuestions : JsonArray(id, n)
    \/ \E id \in AllCycleIds : JsonNotArray(id)
    \/ \E id \in AllCycleIds : JsonRejected(id)
    \/ ShowAnswerClick
    \/ NextQuestionClick

Spec == Init /\ [][Next]_vars

(***************************************************************************)
(* Every request that was issued is answered in the end, and so is every   *)
(* read of a response body: the continuation of a suspended cycle runs.    *)
(***************************************************************************)
Settle(id) ==
    \/ FetchRejected(id)
    \/ FetchNotOk(id)
    \/ FetchOk(id)
    \/ \E n \in 0..MaxQuestions : JsonArray(id, n)
    \/ JsonNotArray(id)
    \/ JsonRejected(id)

\* the popup opens on a selection that an earlier run of the popup saved
SavedTexts ==
    {AbsentItem} \cup
    {JSONStringify(SelectedCategories(chk)) : chk \in [CategorySet -> BOOLEAN]}

LiveInit == Init /\ storage \in SavedTexts

LiveSpec ==
    LiveInit /\ [][Next]_vars /\ \A id \in AllCycleIds : WF_vars(Settle(id))

(***************************************************************************)
(* shuffleArray on its own.  The pool it is given at line 94 is, when no   *)
(* other cycle ran, the sheets of the selected categories one after the    *)
(* other; ShuffleStep applies shuffleArray to the pool, any number of      *)
(* times.                                                                  *)
(***************************************************************************)
RECURSIVE SheetsOf(_, _)
SheetsOf(categories, rows) ==
    IF Len(categories) = 0 THEN <<>>
    ELSE Sheet(Head(categories), rows[Head(categories)]) \o
         SheetsOf(Tail(categories), rows)

FetchedPools ==
    {pool \in {SheetsOf(Categories, rows) : rows \in [CategorySet -> 0..MaxRows]} :
        Len(pool) <= MaxShuffled}

ShuffleInit ==
    /\ phase = "open"
    /\ storage = JSONStringify(Categories)
    /\ checked = [c \in CategorySet |-> TRUE]
    /\ allQuestions \in FetchedPools
    /\ dom = toggleLoading(Markup, TRUE)
    /\ cycles = <<>>
    /\ pending = {}
    /\ fetchCalls = 0
    /\ toggles = 0
    /\ justFinished = NoCycle
    /\ lastChange = NoChange
    /\ lastClick = NoClick

ShuffleStep ==
    /\ allQuestions' \in shuffleArray(allQuestions)
    /\ UNCHANGED <<phase, storage, checked, dom, cycles, pending, fetchCalls,
                   toggles, justFinished, lastChange, lastClick>>

ShuffleSpec == ShuffleInit /\ [][ShuffleStep]_vars

\* the arrays that hold the elements of array in some order
PermutationsOf(array) ==
    {[k \in 1..Len(array) |-> array[p[k]]] : p \in Permutations(1..Len(array))}

(***************************************************************************)
(* Vocabulary of the properties.                                           *)
(***************************************************************************)
RECURSIVE Fetched(_)
\* the arrays a cycle received, one after the other
Fetched(results) ==
    IF Len(results) = 0 THEN <<>> ELSE Head(results).arr \o Fetched(Tail(results))

AllSucceeded(results) == \A k \in 1..Len(results) : results[k].ok

Elements(arr) == {arr[k] : k \in 1..Len(arr)}

NoneChecked == \A c \in CategorySet : ~checked[c]

\* the question text is the text of a question, not a message or blank
QuestionOnDisplay == dom.questionText \notin {"", SelectPrompt, AccountGuidance}

Done(id) == id \in CycleIds /\ cycles[id].pc = "done"

\* the current state is the one a cycle's last statement left
CycleJustFinished == justFinished.id # 0

ControlsHidden ==
    dom.answerHidden /\ dom.showAnswerHidden /\ dom.nextQuestionHidden

\* JSON texts of the empty array and of the default selection
EmptyArrayText == <<"[", "]">>

CypressText == <<"[", "\"Cypress\"", "]">>

\* the stored text is the array of the controls checked in chk, in control order
ListsCheckedControls(text, chk) ==
    JSONParse(text) = [isNull |-> FALSE, arr |-> SelectedCategories(chk)]

\* every value of the stored array is the value of a control
AllMatch(text) ==
    LET arr == JSONParse(text).arr
    IN  \A k \in 1..Len(arr) : arr[k] \in CategorySet

\* the stored array lists values of controls, each once, in control order
InControlOrder(text) ==
    LET arr == JSONParse(text).arr
    IN  arr = SelectedCategories(ApplySaved(arr))

\* what Initialize, run again on the storage as it is, checks and stores
Reopened ==
    [checked |-> ApplySaved(SavedCategories(storage)),
     storage |-> StorageAfterLoad(storage)]

\* the requests of a cycle that are not settled yet
Outstanding(id) == {r \in pending : r.cycle = id}

\* two records of a cycle stand at the same place of the same loop
SameProgress(a, b) ==
    /\ a.categories = b.categories
    /\ a.i = b.i
    /\ a.pc = b.pc
    /\ a.issued = b.issued

(***************************************************************************)
(* C1: when a fetch cycle over a non-empty selection finishes and every    *)
(* one of its requests succeeded with an array of N_i questions, the pool  *)
(* holds exactly sum(N_i) questions and the question put on display is one *)
(* of the questions that cycle fetched, also when toggles started other    *)
(* cycles while it was awaiting a response.                                *)
(***************************************************************************)
C1_PoolIsWhatTheCycleFetched ==
    (CycleJustFinished /\ AllSucceeded(justFinished.results)) =>
        /\ Len(allQuestions) = Len(Fetched(justFinished.results))
        /\ QuestionOnDisplay =>
             \E q \in Elements(Fetched(justFinished.results)) :
                 dom.questionText = q.question

(***************************************************************************)
(* C2: a question is on display only when no fetch cycle is in flight,     *)
(* that is, never from a pool that a cycle has cleared and is still        *)
(* filling.                                                                *)
(***************************************************************************)
C2_NoQuestionFromPoolBeingFilled ==
    QuestionOnDisplay => InFlightIds = {}

(***************************************************************************)
(* C3: after the load, if the storage key was absent (or null) or held an  *)
(* empty array, storage holds ["Cypress"] and exactly the Cypress control  *)
(* is checked; if it held a non-empty array, storage is as it was and a    *)
(* control is checked iff its value is in that array.                      *)
(***************************************************************************)
C3_DefaultSelection ==
    lastChange.event = "load" =>
        IF lastChange.storage \in {AbsentItem, NullText, EmptyArrayText}
        THEN /\ storage = CypressText
             /\ \A c \in CategorySet : checked[c] <=> (c = "Cypress")
        ELSE /\ storage = lastChange.storage
             /\ \A c \in CategorySet :
                    checked[c] <=>
                        \E k \in 1..Len(storage) : storage[k] = "\"" \o c \o "\""

C3_Witness_DefaultApplied ==
    /\ lastChange.event = "load"
    /\ lastChange.storage = EmptyArrayText
    /\ storage = CypressText
    /\ checked["Cypress"] /\ ~checked["Selenium"]

(***************************************************************************)
(* C4: a call of fetchQuestion (at load or after a checkbox change) with   *)
(* no control checked issues no request, starts no cycle and leaves the    *)
(* pool as it is; right after it the question text is the select-a-        *)
(* category prompt and the answer, both buttons and the spinner are        *)
(* hidden.                                                                 *)
(***************************************************************************)
C4_EmptySelectionGuard ==
    [][(fetchCalls' # fetchCalls /\ \A c \in CategorySet : ~checked'[c]) =>
          /\ pending' = pending
          /\ cycles' = cycles
          /\ allQuestions' = allQuestions
          /\ dom'.questionText = SelectPrompt
          /\ dom'.answerHidden /\ dom'.showAnswerHidden
          /\ dom'.nextQuestionHidden /\ dom'.spinnerHidden]_vars

\* the last control was unchecked while a cycle was in flight and its pool
\* already held a question
C4_Witness_GuardTaken ==
    /\ lastChange.event \in CategorySet
    /\ NoneChecked
    /\ fetchCalls = lastChange.fetchCalls + 1
    /\ Len(cycles) = lastChange.cycles
    /\ InFlightIds # {}
    /\ Len(allQuestions) > 0
    /\ dom.questionText = SelectPrompt
    /\ ControlsHidden /\ dom.spinnerHidden

(***************************************************************************)
(* C5: displayNextQuestion, at the end of a cycle or on a next-question    *)
(* click, with an empty pool shows the account guidance and leaves the     *)
(* answer and both buttons hidden; with a non-empty pool it shows the      *)
(* question of one element of the pool, sets the answer text to that       *)
(* element's answer, hides the answer and shows both buttons.              *)
(***************************************************************************)
C5_DisplayNextQuestion ==
    [][(NextQuestionClick \/ justFinished'.id # 0) =>
          IF Len(allQuestions') = 0
          THEN /\ dom'.questionText = AccountGuidance
               /\ dom'.answerHidden /\ dom'.showAnswerHidden
               /\ dom'.nextQuestionHidden
          ELSE /\ \E k \in 1..Len(allQuestions') :
                     /\ dom'.questionText = allQuestions'[k].question
                     /\ dom'.answerText = allQuestions'[k].answer
               /\ dom'.answerHidden
               /\ ~dom'.showAnswerHidden /\ ~dom'.nextQuestionHidden]_vars

\* a cycle ended on a pool of two different questions and displayed the
\* second of them
C5_Witness_QuestionShown ==
    /\ CycleJustFinished
    /\ Len(allQuestions) = 2
    /\ allQuestions[1] # allQuestions[2]
    /\ dom.questionText = allQuestions[2].question
    /\ dom.answerText = allQuestions[2].answer
    /\ dom.answerHidden /\ ~dom.showAnswerHidden /\ ~dom.nextQuestionHidden

(***************************************************************************)
(* C6: after a checkbox change the changed control, and only it, has       *)
(* flipped, storage holds the checked values in control order, and         *)
(* fetchQuestion has been called exactly once; that call starts exactly    *)
(* one new cycle over the checked categories when a control is checked and *)
(* none when no control is checked.  Changing the same control twice in a  *)
(* row restores the checked state, calls fetchQuestion exactly twice, and  *)
(* restores the stored selection when that listed the checked controls in  *)
(* control order.                                                          *)
(***************************************************************************)
C6_ToggleSavesAndRefetches ==
    lastChange.event \in CategorySet =>
        /\ \A c \in CategorySet :
              checked[c] = IF c = lastChange.event THEN ~lastChange.checked[c]
                                                   ELSE lastChange.checked[c]
        /\ ListsCheckedControls(storage, checked)
        /\ fetchCalls = lastChange.fetchCalls + 1
        /\ IF NoneChecked
           THEN Len(cycles) = lastChange.cycles
           ELSE /\ Len(cycles) = lastChange.cycles + 1
                /\ cycles[Len(cycles)].categories = SelectedCategories(checked)
        /\ lastChange.prevEvent = lastChange.event =>
              /\ checked = lastChange.prevChecked
              /\ fetchCalls = lastChange.prevFetchCalls + 2
              /\ ListsCheckedControls(lastChange.prevStorage, lastChange.prevChecked)
                    => storage = lastChange.prevStorage

\* Selenium was unchecked and checked again, with Cypress checked throughout
C6_Witness_OffThenOn ==
    /\ lastChange.event = "Selenium"
    /\ lastChange.prevEvent = "Selenium"
    /\ checked["Selenium"] /\ checked["Cypress"]
    /\ checked = lastChange.prevChecked
    /\ storage = lastChange.prevStorage
    /\ fetchCalls = lastChange.prevFetchCalls + 2
    /\ Len(cycles) = 3

\* the claim as it was stated: every checkbox change starts one new cycle, and
\* off-then-on restores the stored selection
C6_EveryToggleStartsACycle ==
    lastChange.event \in CategorySet =>
        /\ ListsCheckedControls(storage, checked)
        /\ Len(cycles) = lastChange.cycles + 1
        /\ lastChange.prevEvent = lastChange.event =>
              /\ checked = lastChange.prevChecked
              /\ storage = lastChange.prevStorage

(***************************************************************************)
(* C7: when a cycle that no other cycle overlapped finishes, it has        *)
(* requested every one of its categories, whatever failed on the way, and  *)
(* the pool holds exactly the elements of the arrays that its successful   *)
(* requests returned: a bad status, a network failure or a body that is no *)
(* array adds nothing.                                                     *)
(***************************************************************************)
C7_FailedCategoriesAreSkipped ==
    (CycleJustFinished /\ ~justFinished.overlapped) =>
        /\ justFinished.issued = justFinished.categories
        /\ Len(justFinished.results) = Len(justFinished.categories)
        /\ BagOfSeq(allQuestions) = BagOfSeq(Fetched(justFinished.results))

\* the first category failed, the second one was still requested and gave
\* the one question of the pool
C7_Witness_SkippedThenFetched ==
    /\ CycleJustFinished
    /\ ~justFinished.overlapped
    /\ Len(justFinished.results) = 2
    /\ ~justFinished.results[1].ok
    /\ justFinished.results[2].ok
    /\ Len(allQuestions) = 1
    /\ allQuestions = justFinished.results[2].arr

(***************************************************************************)
(* C8: if every request and every body read is answered in the end, every  *)
(* cycle that is in flight finishes in the end, and the state its last     *)
(* statement leaves has the spinner hidden and shows a question or the     *)
(* account guidance, whatever failed and whatever was toggled meanwhile.   *)
(***************************************************************************)
C8_EveryCycleFinishes ==
    /\ \A id \in AllCycleIds :
          (id \in InFlightIds) ~> Done(id)
    /\ [](CycleJustFinished =>
             /\ dom.spinnerHidden
             /\ QuestionOnDisplay \/ dom.questionText = AccountGuidance)

\* the first cycle finished after a later toggle, all its requests failed
C8_Witness_FinishedDespiteFailures ==
    /\ CycleJustFinished
    /\ justFinished.id = 1
    /\ Len(cycles) > 1
    /\ Len(justFinished.results) = 2
    /\ \A k \in 1..2 : ~justFinished.results[k].ok
    /\ dom.spinnerHidden

(***************************************************************************)
(* C9: a cycle requests its categories one at a time, in selection order   *)
(* and once each: what it has requested is a prefix of its categories, it  *)
(* has at most one request outstanding, a request is issued only when all  *)
(* earlier ones are settled, and a finished cycle has requested each       *)
(* category exactly once.                                                  *)
(***************************************************************************)
C9_RequestsAreSequential ==
    \A id \in CycleIds :
        LET cy == cycles[id]
        IN  /\ Cardinality(Outstanding(id)) <= 1
            /\ Len(cy.issued) <= Len(cy.categories)
            /\ cy.issued = SubSeq(cy.categories, 1, Len(cy.issued))
            /\ \A r \in Outstanding(id) :
                  /\ r.category = cy.issued[Len(cy.issued)]
                  /\ Len(cy.results) = Len(cy.issued) - 1
            /\ InFlight(cy) => Len(cy.issued) = Len(cy.results) + 1
            /\ ~InFlight(cy) => cy.issued = cy.categories

\* a cycle over two categories has its second request outstanding
C9_Witness_SecondRequest ==
    \E id \in CycleIds :
        /\ cycles[id].categories = <<"Cypress", "Selenium">>
        /\ cycles[id].issued = <<"Cypress", "Selenium">>
        /\ Len(cycles[id].results) = 1
        /\ Outstanding(id) = {Request(id, "Selenium")}

C11_TwoClicksRestore ==
    (lastClick.button = "show" /\ lastClick.run >= 2) =>
        dom.answerHidden = lastClick.hidden2

\* the answer was shown, then hidden by one click and shown again by the next
C11_Witness_ShownHiddenShown ==
    /\ lastClick.button = "show"
    /\ lastClick.run >= 2
    /\ ~lastClick.hidden2
    /\ lastClick.hidden1
    /\ ~dom.answerHidden

(***************************************************************************)
(* C12: a show-answer click and a next-question click leave the pool       *)
(* (elements, order, length), the storage, the category controls, the      *)
(* requests and the cycles as they are; a show-answer click changes        *)
(* nothing of the page but the hidden class of the answer text; and the    *)
(* pool changes only in a step of a fetch cycle (its start or one of its   *)
(* continuations).                                                         *)
(***************************************************************************)
C12_ClicksLeavePoolAlone ==
    [][/\ lastClick'.button # "none" =>
             /\ allQuestions' = allQuestions
             /\ storage' = storage
             /\ checked' = checked
             /\ pending' = pending
             /\ cycles' = cycles
             /\ fetchCalls' = fetchCalls
       /\ lastClick'.button = "show" =>
             dom' = [dom EXCEPT !.answerHidden = dom'.answerHidden]
       /\ allQuestions' # allQuestions =>
             \/ Len(cycles') = Len(cycles) + 1
             \/ \E id \in CycleIds : ~SameProgress(cycles'[id], cycles[id])]_vars

\* next-question was clicked twice in a row on a pool of two different questions
C12_Witness_ClickedOnPoolOfTwo ==
    /\ lastClick.button = "next"
    /\ lastClick.run >= 2
    /\ Len(allQuestions) = 2
    /\ allQuestions[1] # allQuestions[2]
    /\ QuestionOnDisplay

(***************************************************************************)
(* C13: next-question does not use the pool up.  A next-question click     *)
(* finds the pool non-empty, leaves it as it is and displays the question  *)
(* and answer of one of its elements, with both buttons shown, so that the *)
(* next click does the same: however many clicks follow one another, a     *)
(* question of the pool is on display, also one that was shown before.     *)
(***************************************************************************)
C13_PoolIsNeverUsedUp ==
    [][lastClick'.button = "next" =>
          /\ Len(allQuestions) > 0
          /\ allQuestions' = allQuestions
          /\ \E k \in 1..Len(allQuestions) :
                dom'.questionText = allQuestions[k].question
          /\ ~dom'.nextQuestionHidden]_vars

\* the pool holds one question and next-question was clicked at least twice in a
\* row: the same question is on display again
C13_Witness_SameQuestionAgain ==
    /\ lastClick.button = "next"
    /\ lastClick.run >= 2
    /\ Len(allQuestions) = 1
    /\ dom.questionText = allQuestions[1].question
    /\ ~dom.nextQuestionHidden

\* the claim as it was stated: a next-question click on a non-empty pool takes
\* one question out of the pool, so that after as many clicks as the pool had
\* questions it is empty, and a click on the empty pool shows the guidance
C13_PoolIsConsumed ==
    [][lastClick'.button = "next" =>
          IF Len(allQuestions) > 0
          THEN Len(allQuestions') = Len(allQuestions) - 1
          ELSE /\ dom'.questionText = AccountGuidance
               /\ dom'.showAnswerHidden /\ dom'.nextQuestionHidden]_vars

(***************************************************************************)
(* C14: shuffleArray (i from the last index down to 1, element i swapped   *)
(* with element j drawn from 0..i) returns an array of the same length and *)
(* the same multiset of questions as its input; for every input the arrays *)
(* it can return are exactly the permutations of the input; and an input   *)
(* of length 0 or 1 is returned unchanged.                                 *)
(***************************************************************************)
C14_ShuffleIsAnyPermutation ==
    /\ [][/\ Len(allQuestions') = Len(allQuestions)
          /\ BagOfSeq(allQuestions') = BagOfSeq(allQuestions)]_vars
    /\ [](shuffleArray(allQuestions) = PermutationsOf(allQuestions))
    /\ [](Len(allQuestions) <= 1 => shuffleArray(allQuestions) = {allQuestions})

\* three questions fetched in sheet order came out in the reverse order
C14_Witness_Reversed ==
    allQuestions = <<Question("Selenium", 1), Question("Cypress", 2),
                     Question("Cypress", 1)>>

(***************************************************************************)
(* C15: whenever the spinner is visible, both buttons are hidden and the   *)
(* question text is empty; hence no button is clicked while the spinner is *)
(* visible, whatever toggles and ends of cycles came before.               *)
(***************************************************************************)
C15_SpinnerMeansNoControls ==
    /\ [](~dom.spinnerHidden =>
             /\ dom.showAnswerHidden
             /\ dom.nextQuestionHidden
             /\ dom.questionText = "")
    /\ [][lastClick'.button # "none" => dom.spinnerHidden]_vars

\* a question had been displayed and a toggle started a new cycle: the spinner
\* is visible again while the earlier cycle is done
C15_Witness_LoadingAgain ==
    /\ ~dom.spinnerHidden
    /\ Len(cycles) >= 2
    /\ cycles[1].pc = "done"
    /\ dom.answerText # ""
    /\ dom.showAnswerHidden /\ dom.nextQuestionHidden
    /\ dom.questionText = ""

(***************************************************************************)
(* C16: whenever a fetch cycle is in flight the spinner is visible and     *)
(* both buttons are hidden; the spinner is hidden only when no cycle is in *)
(* flight.                                                                 *)
(***************************************************************************)
C16_InFlightMeansLoading ==
    /\ InFlightIds # {} =>
          /\ ~dom.spinnerHidden
          /\ dom.showAnswerHidden
          /\ dom.nextQuestionHidden
    /\ dom.spinnerHidden => InFlightIds = {}

(***************************************************************************)
(* C17: whenever the answer text is visible, the question text is the      *)
(* question of an element of the pool, the answer text is the answer of    *)
(* that element, and the show-answer button is visible; so the answer is   *)
(* hidden while the spinner is visible and while the prompt or the         *)
(* guidance is on display.                                                 *)
(***************************************************************************)
C17_VisibleAnswerHasItsQuestion ==
    /\ ~dom.answerHidden =>
          /\ \E k \in 1..Len(allQuestions) :
                /\ dom.questionText = allQuestions[k].question
                /\ dom.answerText = allQuestions[k].answer
          /\ ~dom.showAnswerHidden
    /\ (\/ ~dom.spinnerHidden
        \/ dom.questionText \in {SelectPrompt, AccountGuidance}) => dom.answerHidden

(***************************************************************************)
(* C18: from a checkbox change that leaves no control checked until the    *)
(* next checkbox change, the question text is the select-a-category        *)
(* prompt and the answer, both buttons and the spinner are hidden, also    *)
(* when a cycle was in flight at the change; and in no state of the open   *)
(* popup with no control checked is a question on display.                 *)
(***************************************************************************)
C18_EmptySelectionStaysEmpty ==
    (phase = "open" /\ NoneChecked) =>
        /\ ~QuestionOnDisplay
        /\ lastChange.event \in CategorySet =>
              /\ dom.questionText = SelectPrompt
              /\ ControlsHidden
              /\ dom.spinnerHidden

(***************************************************************************)
(* C19: after a load from a stored array that lists values of controls in  *)
(* control order (or from no stored value), and after any checkbox changes *)
(* that follow, the stored array is the values of the checked controls in  *)
(* control order; running Initialize again on that storage checks the same *)
(* controls when one is checked, and checks exactly Cypress and stores     *)
(* ["Cypress"] when none is.                                               *)
(***************************************************************************)
C19_StorageRoundTrip ==
    (/\ phase = "open"
     /\ lastChange.event = "load" => InControlOrder(lastChange.storage)) =>
        /\ ListsCheckedControls(storage, checked)
        /\ IF NoneChecked
           THEN /\ \A c \in CategorySet : Reopened.checked[c] <=> (c = "Cypress")
                /\ Reopened.storage = CypressText
           ELSE Reopened.checked = checked

\* the only checked control was unchecked: storage holds [] and a reopened
\* popup falls back to Cypress
C19_Witness_EmptiedThenReopened ==
    /\ lastChange.event \in CategorySet
    /\ NoneChecked
    /\ storage = EmptyArrayText
    /\ Reopened.checked["Cypress"] /\ ~Reopened.checked["Selenium"]
    /\ Reopened.storage = CypressText

\* the claim as it was stated: it is enough that every stored value is the value
\* of a control
C19_StorageRoundTripOfAnyMatch ==
    (/\ phase = "open"
     /\ lastChange.event = "load" => AllMatch(lastChange.storage)) =>
        /\ ListsCheckedControls(storage, checked)
        /\ IF NoneChecked
           THEN /\ \A c \in CategorySet : Reopened.checked[c] <=> (c = "Cypress")
                /\ Reopened.storage = CypressText
           ELSE Reopened.checked = checked

====
